---- MODULE Spec2Model ----
(***************************************************************************)
(* GunCon2 light-gun device of pcsx2/USB/usb-lightgun/guncon2.cpp.         *)
(*                                                                         *)
(* Numbers.  The code computes the pointer and the profile in float.  The  *)
(* model keeps them as exact decimal fixed-point numbers:                  *)
(*   pointer coordinates  in units of 1/Unit   (Unit  = 10^8),             *)
(*   scale_x, scale_y     in units of 1/ScaleUnit (ScaleUnit = 10^4),      *)
(*   percentages (table, settings) in units of 1/PctUnit percent.          *)
(* Float rounding error (about 6*10^-8 relative) is not modelled.          *)
(***************************************************************************)
EXTENDS Integers, Sequences, FiniteSets, TLC

(***************************************************************************)
(* Program constants                                                       *)
(***************************************************************************)
GUNCON2_FLAG_PROGRESSIVE == 256
GUNCON2_CALIBRATION_DELAY == 12
GUNCON2_CALIBRATION_REPORT_DELAY == 5

BID_B == 2
BID_A == 3
BID_TRIGGER == 13
BID_SHOOT_OFFSCREEN == 16
BID_RECALIBRATE == 17
BID_RELATIVE_LEFT == 18

DEFAULT_SCREEN_WIDTH == 640
DEFAULT_SCREEN_HEIGHT == 240
DEFAULT_CENTER_X == 320
DEFAULT_CENTER_Y == 120

(***************************************************************************)
(* Fixed-point units and integer helpers                                   *)
(***************************************************************************)
Limb == 100 * 100
Unit == Limb * Limb
ScaleUnit == 100 * 100
PctUnit == 10 * 10

\* DEFAULT_SCALE_X / DEFAULT_SCALE_Y = 100.0f (percent)
DEFAULT_SCALE_X == 100 * PctUnit
DEFAULT_SCALE_Y == 100 * PctUnit

Pow2(n) == 2 ^ n

\* bit b of the unsigned value v
Bit(v, b) == (v \div Pow2(b)) % 2

\* v with bit b set / cleared
SetBit(v, b) == IF Bit(v, b) = 1 THEN v ELSE v + Pow2(b)
ClearBit(v, b) == IF Bit(v, b) = 1 THEN v - Pow2(b) ELSE v

\* static_cast<u16>: the low 16 bits
U16(v) == v % 65536

\* static_cast<s16>: the low 16 bits read as two's complement
S16(v) == ((v + 32768) % 65536) - 32768

Max(a, b) == IF a >= b THEN a ELSE b

\* C++ integer division by two, truncating toward zero
TruncDiv2(v) == IF v >= 0 THEN v \div 2 ELSE -((-v) \div 2)

\* floor(a * b / Unit) for 0 <= a, b, in base-Limb limbs so that no
\* intermediate product leaves the 32-bit range
MulFloor(a, b) ==
    LET a1 == a \div Limb
        a0 == a % Limb
        b1 == b \div Limb
        b0 == b % Limb
        mid == a1 * b0 + a0 * b1 + ((a0 * b0) \div Limb)
    IN  a1 * b1 + (mid \div Limb)

\* TRUE iff a * b is not a multiple of Unit (the product has a fraction)
MulHasFrac(a, b) ==
    LET a1 == a \div Limb
        a0 == a % Limb
        b1 == b \div Limb
        b0 == b % Limb
        mid == a1 * b0 + a0 * b1 + ((a0 * b0) \div Limb)
    IN  (mid % Limb # 0) \/ ((a0 * b0) % Limb # 0)

\* a fixed-point value (units of 1/Unit) times the decimal constant c/Unit
FMul(v, c) == IF v >= 0 THEN MulFloor(v, c) ELSE -MulFloor(-v, c)

(***************************************************************************)
(* Profile table                                                           *)
(***************************************************************************)
s_game_config == <<
    [serial |-> "SLES-50930", scale_x |-> 9025, scale_y |-> 9450, center_x |-> 390, center_y |-> 132, screen_width |-> 640, screen_height |-> 256],
    [serial |-> "SLES-51095", scale_x |-> 9025, scale_y |-> 9450, center_x |-> 390, center_y |-> 132, screen_width |-> 640, screen_height |-> 256],
    [serial |-> "SLES-51096", scale_x |-> 9025, scale_y |-> 9450, center_x |-> 390, center_y |-> 132, screen_width |-> 640, screen_height |-> 256],
    [serial |-> "SLUS-20485", scale_x |-> 9025, scale_y |-> 9250, center_x |-> 390, center_y |-> 132, screen_width |-> 640, screen_height |-> 240],
    [serial |-> "SLUS-20389", scale_x |-> 8925, scale_y |-> 9350, center_x |-> 422, center_y |-> 141, screen_width |-> 640, screen_height |-> 240],
    [serial |-> "SLES-50936", scale_x |-> 11200, scale_y |-> 10000, center_x |-> 320, center_y |-> 120, screen_width |-> 512, screen_height |-> 256],
    [serial |-> "SLPM-65139", scale_x |-> 9000, scale_y |-> 9150, center_x |-> 320, center_y |-> 120, screen_width |-> 640, screen_height |-> 240],
    [serial |-> "SLES-52620", scale_x |-> 8950, scale_y |-> 11230, center_x |-> 390, center_y |-> 147, screen_width |-> 640, screen_height |-> 256],
    [serial |-> "SLES-51289", scale_x |-> 8450, scale_y |-> 8900, center_x |-> 456, center_y |-> 164, screen_width |-> 640, screen_height |-> 256],
    [serial |-> "SLPS-25165", scale_x |-> 9025, scale_y |-> 9800, center_x |-> 390, center_y |-> 138, screen_width |-> 640, screen_height |-> 240],
    [serial |-> "SCES-50889", scale_x |-> 9025, scale_y |-> 9450, center_x |-> 390, center_y |-> 169, screen_width |-> 640, screen_height |-> 256],
    [serial |-> "SLPS-20218", scale_x |-> 9000, scale_y |-> 9200, center_x |-> 320, center_y |-> 134, screen_width |-> 640, screen_height |-> 240],
    [serial |-> "SLUS-20492", scale_x |-> 9025, scale_y |-> 9250, center_x |-> 390, center_y |-> 132, screen_width |-> 640, screen_height |-> 240],
    [serial |-> "SLES-50650", scale_x |-> 9025, scale_y |-> 10700, center_x |-> 425, center_y |-> 135, screen_width |-> 640, screen_height |-> 240],
    [serial |-> "SLES-51448", scale_x |-> 9025, scale_y |-> 9500, center_x |-> 420, center_y |-> 132, screen_width |-> 640, screen_height |-> 240],
    [serial |-> "SLUS-20669", scale_x |-> 9025, scale_y |-> 9350, center_x |-> 420, center_y |-> 132, screen_width |-> 640, screen_height |-> 240],
    [serial |-> "SLES-51617", scale_x |-> 9025, scale_y |-> 8200, center_x |-> 200, center_y |-> 154, screen_width |-> 640, screen_height |-> 256],
    [serial |-> "SLUS-20619", scale_x |-> 9025, scale_y |-> 9175, center_x |-> 453, center_y |-> 154, screen_width |-> 640, screen_height |-> 256],
    [serial |-> "SCES-50300", scale_x |-> 9025, scale_y |-> 10275, center_x |-> 390, center_y |-> 138, screen_width |-> 640, screen_height |-> 256],
    [serial |-> "SLUS-20219", scale_x |-> 9025, scale_y |-> 9750, center_x |-> 390, center_y |-> 154, screen_width |-> 640, screen_height |-> 240],
    [serial |-> "SCES-51844", scale_x |-> 9025, scale_y |-> 10275, center_x |-> 390, center_y |-> 138, screen_width |-> 640, screen_height |-> 256],
    [serial |-> "SLUS-20645", scale_x |-> 9025, scale_y |-> 9750, center_x |-> 390, center_y |-> 154, screen_width |-> 640, screen_height |-> 240],
    [serial |-> "SCES-52530", scale_x |-> 9025, scale_y |-> 9900, center_x |-> 390, center_y |-> 153, screen_width |-> 640, screen_height |-> 256],
    [serial |-> "SLUS-20927", scale_x |-> 9025, scale_y |-> 9900, center_x |-> 390, center_y |-> 153, screen_width |-> 640, screen_height |-> 240],
    [serial |-> "SCES-50411", scale_x |-> 8980, scale_y |-> 9990, center_x |-> 421, center_y |-> 138, screen_width |-> 640, screen_height |-> 256],
    [serial |-> "SLPS-25077", scale_x |-> 9000, scale_y |-> 9750, center_x |-> 422, center_y |-> 118, screen_width |-> 640, screen_height |-> 240],
    [serial |-> "SLUS-20221", scale_x |-> 8980, scale_y |-> 10250, center_x |-> 452, center_y |-> 137, screen_width |-> 640, screen_height |-> 228],
    [serial |-> "SLES-51229", scale_x |-> 11015, scale_y |-> 10000, center_x |-> 433, center_y |-> 159, screen_width |-> 512, screen_height |-> 256]
>>

\* a percentage (units of 1/PctUnit percent) divided by 100.0f, as a scale
\* factor in units of 1/ScaleUnit
PctToScale(pct) == (pct * ScaleUnit) \div (100 * PctUnit)

(***************************************************************************)
(* Coordinate mapper                                                       *)
(***************************************************************************)
\* titles whose split-screen mode shifts the aim (threadOutputs,
\* CalculatePosition)
SplitTitles == {"SLUS-20219", "SCES-50300", "SCES-51844", "SLUS-20645"}

\* the min/max constants of the aim adjustment, in units of 1/Unit, and the
\* curvature factor in tenths (2.7, 3.0, 3.1)
SplitAdjust(game, prt) ==
    CASE game = "SLUS-20219" /\ prt = 0 ->
            [xmin |-> 3500000, xmax |-> 90350000, ymin |-> 25000000, ymax |-> 69000000, curve |-> 27]
      [] game = "SLUS-20219" /\ prt = 1 ->
            [xmin |-> 9300000, xmax |-> 97000000, ymin |-> 24700000, ymax |-> 69000000, curve |-> 27]
      [] game = "SCES-50300" /\ prt = 0 ->
            [xmin |-> 2798462, xmax |-> 90000000, ymin |-> 25000000, ymax |-> 69502020, curve |-> 27]
      [] game = "SCES-50300" /\ prt = 1 ->
            [xmin |-> 9300000, xmax |-> 97000000, ymin |-> 24700000, ymax |-> 69000000, curve |-> 27]
      [] game = "SCES-51844" /\ prt = 0 ->
            [xmin |-> 3500000, xmax |-> 90350000, ymin |-> 24700000, ymax |-> 69000000, curve |-> 30]
      [] game = "SCES-51844" /\ prt = 1 ->
            [xmin |-> 9500000, xmax |-> 97000000, ymin |-> 24700000, ymax |-> 69000000, curve |-> 30]
      [] game = "SLUS-20645" /\ prt = 0 ->
            [xmin |-> 3500000, xmax |-> 90350000, ymin |-> 24700000, ymax |-> 69000000, curve |-> 31]
      [] game = "SLUS-20645" /\ prt = 1 ->
            [xmin |-> 9500000, xmax |-> 97000000, ymin |-> 24700000, ymax |-> 69000000, curve |-> 31]

\* ((-0.04 * (py2 * py2)) + (0.04 * py2)) * curve
SplitCurve(py2, curve) ==
    LET sq == MulFloor(IF py2 >= 0 THEN py2 ELSE -py2, IF py2 >= 0 THEN py2 ELSE -py2)
        s == FMul(py2, 4000000) - FMul(sq, 4000000)
    IN  (s * curve) \div 10

\* mutant: the aim adjustment no longer waits for splitscreen_activated
SplitPointerAlways(px, py, dev) ==
    IF dev.active_game \in SplitTitles /\ dev.port \in {0, 1}
    THEN LET k == SplitAdjust(dev.active_game, dev.port)
             x == FMul(px, k.xmax - k.xmin) + k.xmin
             y == FMul(py, k.ymax - k.ymin) + k.ymin
         IN  <<x, IF y > 0 /\ y < Unit THEN y + SplitCurve(py, k.curve) ELSE y>>
    ELSE <<px, py>>

\* lines 625-758: the pointer after the split-screen aim adjustment
SplitPointer(px, py, dev) ==
    IF dev.active_game \in SplitTitles /\ dev.splitscreen_activated /\ dev.port \in {0, 1}
    THEN LET k == SplitAdjust(dev.active_game, dev.port)
             x == FMul(px, k.xmax - k.xmin) + k.xmin
             y == FMul(py, k.ymax - k.ymin) + k.ymin
         IN  <<x, IF y > 0 /\ y < Unit THEN y + SplitCurve(py, k.curve) ELSE y>>
    ELSE <<px, py>>

\* std::round of (m + f) / ScaleUnit, where 0 <= f < 1 and f > 0 iff frac:
\* to nearest, halves away from zero
RoundScaled(m, frac) ==
    IF m >= 0
    THEN (m + (ScaleUnit \div 2)) \div ScaleUnit
    ELSE LET n == (ScaleUnit \div 2) - m
         IN  -(IF frac THEN (n - 1) \div ScaleUnit ELSE n \div ScaleUnit)

\* lines 769-778: round((p * size - size / 2u) * scale + center), p >= 0
ScaleAxis(p, size, scale, center) ==
    LET ws == size * scale
        m == MulFloor(p, ws) - ((size \div 2) * scale) + (center * ScaleUnit)
    IN  RoundScaled(m, MulHasFrac(p, ws))

\* mutant: the halving rounds down instead of toward zero
ApplyOffsetFloorHalf(v, param, mode) ==
    IF Bit(mode, 8) = 1 THEN v - (param \div 2) ELSE v - param

\* lines 781-790: the title's offset, halved (toward zero) in progressive mode
ApplyOffset(v, param, mode) ==
    IF Bit(mode, 8) = 1 THEN v - TruncDiv2(param) ELSE v - param

\* mutant: the narrowing without the clamp to 1
NarrowUnclamped(v) == S16(v)

\* lines 793-794: keep away from the reserved 0, then narrow to s16
ClampNarrow(v) == S16(Max(v, 1))

\* GunCon2State::CalculatePosition for the pointer sample (px, py) that
\* GSTranslateWindowToDisplayCoordinates returned; prof is the screen
\* profile, prm the title's parameters, dev the fields port, active_game and
\* splitscreen_activated
CalculatePosition(px, py, prof, prm, dev) ==
    LET ptr == SplitPointer(px, py, dev)
    IN  IF ptr[1] < 0 \/ ptr[2] < 0
        THEN <<0, 0>>
        ELSE << ClampNarrow(ApplyOffset(
                    ScaleAxis(ptr[1], prof.screen_width, prof.scale_x, prof.center_x),
                    prm.param_x, prm.param_mode)),
                ClampNarrow(ApplyOffset(
                    ScaleAxis(ptr[2], prof.screen_height, prof.scale_y, prof.center_y),
                    prm.param_y, prm.param_mode)) >>

(***************************************************************************)
(* Device state                                                            *)
(***************************************************************************)
VARIABLES
    port,                   \* GunCon2State::port
    disc_serial,            \* VMManager::GetDiscSerial()
    si,                     \* the per-port settings last given to UpdateSettings
    custom_config,
    screen_width, screen_height, center_x, center_y, scale_x, scale_y,
    button_state,
    param_x, param_y, param_mode,
    calibration_timer, calibration_pos_x, calibration_pos_y,
    auto_config_done,
    active_game, splitscreen_activated, threadOutputLoaded,
    pcAutoConfigure,        \* threadAutoConfigure: "loop" or "done"
    pcOutputs,              \* threadOutputs: "none", "start" or "loop"
    p,                      \* outcome of the last handler call
    pointer,                \* the pointer sample of the last valid poll
    auto_config_runs,       \* number of AutoConfigure calls so far
    calib_polls,            \* valid polls since the poll that started calibration
    frozen,                 \* the mapper's position on that poll
    udev_fd,                \* the raw sampling source: -1 when none is attached
    udev_events,            \* input_events waiting to be read from udev_fd
    calibrated,
    udev_internalGunX, udev_internalGunY,
    quitThread,
    pcDtor,                 \* ~GunCon2State: "alive", then its statements, "returned"
    udev_closed,            \* close(udev_fd) was called
    snapshot,               \* the save state the host keeps for a later restore
    calib_started           \* some valid poll has started a calibration

profile_vars == <<screen_width, screen_height, center_x, center_y, scale_x, scale_y>>
param_vars == <<param_x, param_y, param_mode>>
calibration_vars == <<calibration_timer, calibration_pos_x, calibration_pos_y>>
thread_vars == <<active_game, splitscreen_activated, threadOutputLoaded, pcAutoConfigure, pcOutputs>>
env_vars == <<port, disc_serial>>
hist_vars == <<pointer, auto_config_runs, calib_polls, frozen>>
udev_vars == <<udev_fd, udev_events, calibrated, udev_internalGunX, udev_internalGunY>>
teardown_vars == <<quitThread, pcDtor, udev_closed>>
\* what the destructor does not touch
dtor_kept == <<port, disc_serial, snapshot, calib_started, udev_fd, udev_events,
               calibrated, udev_internalGunX, udev_internalGunY, si,
               custom_config, screen_width, screen_height, center_x, center_y,
               scale_x, scale_y, button_state, param_x, param_y, param_mode,
               calibration_timer, calibration_pos_x, calibration_pos_y,
               auto_config_done, splitscreen_activated, threadOutputLoaded,
               pcAutoConfigure, pcOutputs, p, pointer, auto_config_runs,
               calib_polls, frozen>>

vars == <<port, disc_serial, si, custom_config, screen_width, screen_height,
          center_x, center_y, scale_x, scale_y, button_state, param_x, param_y,
          param_mode, calibration_timer, calibration_pos_x, calibration_pos_y,
          auto_config_done, active_game, splitscreen_activated,
          threadOutputLoaded, pcAutoConfigure, pcOutputs, p, pointer,
          auto_config_runs, calib_polls, frozen, udev_fd, udev_events,
          calibrated, udev_internalGunX, udev_internalGunY, quitThread, pcDtor,
          udev_closed, snapshot, calib_started>>

\* the live ScreenProfile, the title's parameters and the fields
\* CalculatePosition reads besides them
Profile ==
    [scale_x |-> scale_x, scale_y |-> scale_y, center_x |-> center_x,
     center_y |-> center_y, screen_width |-> screen_width,
     screen_height |-> screen_height]
Params == [param_x |-> param_x, param_y |-> param_y, param_mode |-> param_mode]
Dev == [port |-> port, active_game |-> active_game,
        splitscreen_activated |-> splitscreen_activated]

\* the geometry UpdateSettings loads from the settings s (lines 1014-1019)
SettingsProfile(s) ==
    [scale_x |-> PctToScale(s.scale_x), scale_y |-> PctToScale(s.scale_y),
     center_x |-> s.center_x, center_y |-> s.center_y,
     screen_width |-> s.screen_width, screen_height |-> s.screen_height]

DefaultSettings ==
    [custom_config |-> FALSE,
     screen_width |-> DEFAULT_SCREEN_WIDTH, screen_height |-> DEFAULT_SCREEN_HEIGHT,
     center_x |-> DEFAULT_CENTER_X, center_y |-> DEFAULT_CENTER_Y,
     scale_x |-> DEFAULT_SCALE_X, scale_y |-> DEFAULT_SCALE_Y]

(***************************************************************************)
(* Inputs                                                                  *)
(***************************************************************************)
Offscreen == -Unit

Requests == {"GetDescriptor", "SetParameter", "Other"}

\* SetParameter payloads: (-3, 3, progressive) and (100, 50, interlaced)
PayloadProgressive == <<253, 255, 3, 0, 0, 1>>
PayloadInterlaced == <<100, 0, 50, 0, 0, 0>>

\* settings with manual geometry, and with the same geometry left unused
ManualSettings ==
    [DefaultSettings EXCEPT !.custom_config = TRUE,
                            !.screen_width = 512, !.screen_height = 256,
                            !.center_x = 300, !.scale_y = 95 * PctUnit]
StaleSettings == [ManualSettings EXCEPT !.custom_config = FALSE]

\* a save state written before the first control packet
FreshState ==
    [marker |-> "GunCon2Device", param_x |-> 0, param_y |-> 0, param_mode |-> 0,
     calibration_timer |-> 0, calibration_pos_x |-> 0, calibration_pos_y |-> 0,
     auto_config_done |-> FALSE,
     scale_x |-> 10000, scale_y |-> 10000, center_x |-> 320, center_y |-> 120,
     screen_width |-> 640, screen_height |-> 240]

\* a save state written in the middle of a calibration of SLUS-20219, six
\* polls before its end
MidCalibrationState ==
    [marker |-> "GunCon2Device", param_x |-> 100, param_y |-> 50, param_mode |-> 0,
     calibration_timer |-> 6, calibration_pos_x |-> 290, calibration_pos_y |-> 104,
     auto_config_done |-> TRUE,
     scale_x |-> 9025, scale_y |-> 9750, center_x |-> 390, center_y |-> 154,
     screen_width |-> 640, screen_height |-> 240]

\* what the host holds before the first save: a stream without the marker
NoSnapshot == [FreshState EXCEPT !.marker = ""]

NoPacket == [op |-> "none", status |-> "none", buttons |-> 0, pos_x |-> 0, pos_y |-> 0]

NoPos == <<0, 0>>

\* value of `pointer` when the last call was not a valid poll
NoPointer == <<Offscreen, Offscreen>>

(***************************************************************************)
(* Bounds                                                                  *)
(***************************************************************************)
\* AutoConfigure calls followed per behaviour
MaxAutoConfigRuns == 2

\* input_events that can wait on the raw source
MaxPending == 2

(***************************************************************************)
(* Profile selection and the control handler                               *)
(***************************************************************************)
SetProfile(prof) ==
    /\ scale_x' = prof.scale_x
    /\ scale_y' = prof.scale_y
    /\ center_x' = prof.center_x
    /\ center_y' = prof.center_y
    /\ screen_width' = prof.screen_width
    /\ screen_height' = prof.screen_height

\* mutant: the comparison of the scan is inverted
MatchingRowsInverted(serial) ==
    {i \in DOMAIN s_game_config : s_game_config[i].serial # serial}

\* the rows of s_game_config whose serial is the disc's
MatchingRows(serial) ==
    {i \in DOMAIN s_game_config : s_game_config[i].serial = serial}

\* mutant: a disc without a row resets the geometry to the defaults
AutoConfigureResets(serial, prof, game) ==
    IF MatchingRows(serial) = {}
    THEN [profile |-> [scale_x |-> PctToScale(DEFAULT_SCALE_X),
                       scale_y |-> PctToScale(DEFAULT_SCALE_Y),
                       center_x |-> DEFAULT_CENTER_X, center_y |-> DEFAULT_CENTER_Y,
                       screen_width |-> DEFAULT_SCREEN_WIDTH,
                       screen_height |-> DEFAULT_SCREEN_HEIGHT],
          active_game |-> game]
    ELSE LET first == CHOOSE i \in MatchingRows(serial) :
                          \A j \in MatchingRows(serial) : i <= j
             gc == s_game_config[first]
         IN  [profile |-> [scale_x |-> PctToScale(gc.scale_x),
                           scale_y |-> PctToScale(gc.scale_y),
                           center_x |-> gc.center_x, center_y |-> gc.center_y,
                           screen_width |-> gc.screen_width,
                           screen_height |-> gc.screen_height],
              active_game |-> serial]

\* GunCon2State::AutoConfigure: the profile and active_game it leaves, from
\* the first row matching the disc serial; both are kept when none matches
AutoConfigure(serial, prof, game) ==
    IF MatchingRows(serial) = {}
    THEN [profile |-> prof, active_game |-> game]
    ELSE LET first == CHOOSE i \in MatchingRows(serial) :
                          \A j \in MatchingRows(serial) : i <= j
             gc == s_game_config[first]
         IN  [profile |-> [scale_x |-> PctToScale(gc.scale_x),
                           scale_y |-> PctToScale(gc.scale_y),
                           center_x |-> gc.center_x, center_y |-> gc.center_y,
                           screen_width |-> gc.screen_width,
                           screen_height |-> gc.screen_height],
              active_game |-> serial]

\* mutant: the test of custom_config is inverted
NeedsAutoConfigureInverted(done, custom) == ~done /\ custom

\* line 295: the first control packet of a device without manual geometry
NeedsAutoConfigure(done, custom) == ~done /\ ~custom

\* usb_desc_handle_control(...) >= 0: the standard descriptor requests
usb_desc_handle_control(request) == request = "GetDescriptor"

\* mutant: the payload is read high byte first
DecodeParamsBigEndian(data) ==
    [param_x |-> S16(U16(data[2]) + U16(data[1]) * 256),
     param_y |-> S16(U16(data[4]) + U16(data[3]) * 256),
     param_mode |-> U16(U16(data[6]) + U16(data[5]) * 256)]

\* lines 307-309: the little-endian payload of SetParameter
DecodeParams(data) ==
    [param_x |-> S16(U16(data[1]) + U16(data[2]) * 256),
     param_y |-> S16(U16(data[3]) + U16(data[4]) * 256),
     param_mode |-> U16(U16(data[5]) + U16(data[6]) * 256)]

\* mutant: the stall status is never set
ControlPacketNeverStalls(status) == [NoPacket EXCEPT !.op = "control", !.status = "ok"]

ControlPacket(status) == [NoPacket EXCEPT !.op = "control", !.status = status]

guncon2_handle_control(request, data) ==
    LET run == NeedsAutoConfigure(auto_config_done, custom_config)
        cfg == IF run THEN AutoConfigure(disc_serial, Profile, active_game)
                      ELSE [profile |-> Profile, active_game |-> active_game]
    IN  /\ run => auto_config_runs < MaxAutoConfigRuns
        /\ SetProfile(cfg.profile)
        /\ active_game' = cfg.active_game
        /\ auto_config_done' = (auto_config_done \/ run)
        /\ auto_config_runs' = IF run THEN auto_config_runs + 1 ELSE auto_config_runs
        /\ IF usb_desc_handle_control(request)
           THEN /\ p' = ControlPacket("ok")
                /\ UNCHANGED param_vars
           ELSE IF request = "SetParameter"
           THEN /\ param_x' = DecodeParams(data).param_x
                /\ param_y' = DecodeParams(data).param_y
                /\ param_mode' = DecodeParams(data).param_mode
                /\ p' = ControlPacket("ok")
           ELSE /\ p' = ControlPacket("stall")
                /\ UNCHANGED param_vars
        /\ UNCHANGED <<env_vars, teardown_vars, snapshot, calib_started, udev_vars, si, custom_config, button_state, calibration_vars,
                       splitscreen_activated, threadOutputLoaded, pcAutoConfigure,
                       pcOutputs, pointer, calib_polls, frozen>>

(***************************************************************************)
(* The data handler                                                        *)
(***************************************************************************)
\* mutant: the timer no longer guards re-entry
CalibrationStartsUnguarded(buttons, timer) ==
    Bit(buttons, BID_RECALIBRATE) = 1

\* mutant: the offscreen shot is served before a calibration is started
CalibrationStartsUnlessOffscreen(buttons, timer) ==
    Bit(buttons, BID_RECALIBRATE) = 1 /\ timer = 0
        /\ Bit(buttons, BID_SHOOT_OFFSCREEN) = 0

\* line 397: recalibrate is down and no sequence is running
CalibrationStarts(buttons, timer) ==
    Bit(buttons, BID_RECALIBRATE) = 1 /\ timer = 0

\* mutant: the buttons are not complemented
ButtonWordActiveHigh(buttons, mode) ==
    LET low == U16(buttons)
    IN  IF Bit(mode, 8) = 1 THEN SetBit(low, 8) ELSE low

\* line 406: active-low buttons, with the progressive flag of the mode
ButtonWord(buttons, mode) ==
    LET low == 65535 - U16(buttons)
    IN  IF Bit(mode, 8) = 1 THEN SetBit(low, 8) ELSE low

\* mutant: the trigger bit is set instead of cleared
ForceTriggerReleased(word) == SetBit(word, BID_TRIGGER)

\* lines 413, 427: out.buttons &= ~(1u << BID_TRIGGER)
ForceTrigger(word) == ClearBit(word, BID_TRIGGER)

\* mutant: the report delay is compared with <=
CalibrationReportOffByOne(timer, pos) ==
    IF timer <= GUNCON2_CALIBRATION_REPORT_DELAY THEN <<0, 0>> ELSE pos

\* lines 414-422: the position reported with `timer` polls left
CalibrationReport(timer, pos) ==
    IF timer < GUNCON2_CALIBRATION_REPORT_DELAY THEN <<0, 0>> ELSE pos

\* mutant: the offscreen shot is read from the trigger bit
ShootsOffscreenWrongBit(buttons) == Bit(buttons, BID_TRIGGER) = 1

\* line 424: the offscreen shot
ShootsOffscreen(buttons) == Bit(buttons, BID_SHOOT_OFFSCREEN) = 1

\* mutant: the timer is not decremented
TimerTickStuck(timer) == timer

\* line 416: one poll less to go
TimerTick(timer) == timer - 1

DataPacket(word, pos) ==
    [op |-> "data", status |-> "ok", buttons |-> word, pos_x |-> pos[1], pos_y |-> pos[2]]

StallPacket == [NoPacket EXCEPT !.op = "data", !.status = "stall"]

\* mutant: the endpoint number is not looked at
ServesTransferAnyEndpoint(pid, ep) == pid = "IN"

\* lines 383-387: the transfer the device answers with a report
ServesTransfer(pid, ep) == pid = "IN" /\ ep = 1

\* updateState: one bit of button_state
updateState(buttons, bid, pressed) ==
    IF pressed THEN SetBit(buttons, bid) ELSE ClearBit(buttons, bid)

\* udev_has
udev_has(fd) == fd # -1

\* the axis range udev_configure_gun reads from the device, and the size of
\* the window
GunRange == [minx |-> 0, maxx |-> 4, miny |-> 0, maxy |-> 4]
Window == [width |-> 640, height |-> 480]

\* lines 352 and 355: a raw axis value as a window position, in hundredths
\* of a pixel
GunAxis(value, min, max, size) == ((value - min) * 100 * size) \div (max - min)

\* GSTranslateWindowToDisplayCoordinates for a display that fills the
\* window: a window position as a fraction of the display, in 1/Unit
GSTranslateWindowToDisplayCoordinates(w, size) == (w \div size) * (Unit \div 100)

\* what udev_poll_gun works on
UdevState ==
    [button_state |-> button_state, calibrated |-> calibrated,
     x |-> udev_internalGunX, y |-> udev_internalGunY]

\* udev_handle_event
udev_handle_event(st, event) ==
    IF event.type = "EV_KEY"
    THEN IF event.code = "BTN_LEFT"
         THEN LET trig == updateState(st.button_state, BID_TRIGGER, event.value # 0)
              IN  [st EXCEPT !.button_state =
                       IF ~st.calibrated
                       THEN updateState(trig, BID_RECALIBRATE, event.value # 0)
                       ELSE trig]
         ELSE IF event.code = "BTN_RIGHT"
         THEN [st EXCEPT !.button_state = updateState(@, BID_A, event.value # 0),
                         !.calibrated = TRUE]
         ELSE IF event.code = "BTN_MIDDLE"
         THEN [st EXCEPT !.button_state = updateState(@, BID_B, event.value # 0)]
         ELSE st
    ELSE IF event.type = "EV_ABS"
    THEN IF event.code = "ABS_X"
         THEN [st EXCEPT !.x = GunAxis(event.value, GunRange.minx, GunRange.maxx,
                                       Window.width)]
         ELSE IF event.code = "ABS_Y"
         THEN [st EXCEPT !.y = GunAxis(event.value, GunRange.miny, GunRange.maxy,
                                       Window.height)]
         ELSE st
    ELSE st

RECURSIVE HandleEvents(_, _)
\* the events of one read, handled from the first to the last
HandleEvents(st, events) ==
    IF events = <<>> THEN st
    ELSE HandleEvents(udev_handle_event(st, Head(events)), Tail(events))

\* mutant: one event is handled per call
udev_poll_gun_once(st, events) ==
    IF events = <<>> THEN st ELSE udev_handle_event(st, Head(events))

\* udev_poll_gun: reads until nothing is left
udev_poll_gun(st, events) == HandleEvents(st, events)

\* the state guncon2_handle_data works on once line 381 has run
Polled == IF udev_has(udev_fd) THEN udev_poll_gun(UdevState, udev_events) ELSE UdevState

\* lines 613-621: the pointer CalculatePosition maps, from the gun when one
\* is attached, else from the host's pointer ptr
PointerOf(st, ptr) ==
    IF udev_has(udev_fd)
    THEN <<GSTranslateWindowToDisplayCoordinates(st.x, Window.width),
           GSTranslateWindowToDisplayCoordinates(st.y, Window.height)>>
    ELSE ptr

guncon2_handle_data(pid, ep, ptr) ==
    LET st == Polled
        buttons == st.button_state
    IN
    /\ button_state' = buttons
    /\ calibrated' = st.calibrated
    /\ udev_internalGunX' = st.x
    /\ udev_internalGunY' = st.y
    /\ udev_events' = IF udev_has(udev_fd) THEN <<>> ELSE udev_events
    /\ UNCHANGED udev_fd
    /\ IF ServesTransfer(pid, ep)
       THEN LET ptr2 == PointerOf(st, ptr)
                pos == CalculatePosition(ptr2[1], ptr2[2], Profile, Params, Dev)
                start == CalibrationStarts(buttons, calibration_timer)
                timer == IF start THEN GUNCON2_CALIBRATION_DELAY ELSE calibration_timer
                cal == IF start THEN pos ELSE <<calibration_pos_x, calibration_pos_y>>
                word == ButtonWord(buttons, param_mode)
                tracked == calib_polls \in 1..11
                begins == ~tracked /\ Bit(buttons, BID_RECALIBRATE) = 1
                                   /\ calibration_timer = 0
            IN  /\ pointer' = ptr2
                /\ calibration_pos_x' = cal[1]
                /\ calibration_pos_y' = cal[2]
                /\ IF timer > 0
                   THEN /\ calibration_timer' = TimerTick(timer)
                        /\ p' = DataPacket(ForceTrigger(word),
                                           CalibrationReport(TimerTick(timer), cal))
                   ELSE /\ calibration_timer' = timer
                        /\ p' = IF ShootsOffscreen(buttons)
                                THEN DataPacket(ForceTrigger(word), <<0, 0>>)
                                ELSE DataPacket(word, pos)
                /\ calib_polls' = IF tracked THEN calib_polls + 1
                                  ELSE IF begins THEN 1
                                  ELSE IF calib_polls = 12 THEN 13 ELSE 0
                /\ frozen' = IF tracked THEN frozen ELSE IF begins THEN pos ELSE NoPos
                /\ UNCHANGED <<env_vars, teardown_vars, snapshot, si, custom_config, profile_vars,
                               param_vars, auto_config_done, thread_vars,
                               auto_config_runs>>
       ELSE /\ p' = StallPacket
            /\ UNCHANGED <<env_vars, teardown_vars, snapshot, si, custom_config, profile_vars,
                           param_vars, calibration_vars, auto_config_done,
                           thread_vars, hist_vars>>

\* the kernel queues one more input_event on the attached source
udev_event(event) ==
    /\ udev_has(udev_fd)
    /\ Len(udev_events) < MaxPending
    /\ udev_events' = Append(udev_events, event)
    /\ UNCHANGED <<env_vars, teardown_vars, snapshot, calib_started, udev_fd, calibrated, udev_internalGunX,
                   udev_internalGunY, si, custom_config, profile_vars,
                   button_state, param_vars, calibration_vars, auto_config_done,
                   thread_vars, p, hist_vars>>

(***************************************************************************)
(* Settings, bindings, save states                                         *)
(***************************************************************************)
\* mutant: the settings geometry is loaded on every update
LoadsGeometryAlways(done, custom) == TRUE

\* line 1012: settings geometry is loaded unless auto config was applied
LoadsGeometry(done, custom) == ~done \/ custom

\* GunCon2Device::UpdateSettings with the per-port settings s
UpdateSettings(s) ==
    /\ si' = s
    /\ custom_config' = s.custom_config
    /\ IF LoadsGeometry(auto_config_done, s.custom_config)
       THEN SetProfile(SettingsProfile(s))
       ELSE UNCHANGED profile_vars
    /\ p' = NoPacket
    /\ pointer' = NoPointer
    /\ UNCHANGED <<env_vars, teardown_vars, snapshot, calib_started, udev_vars, button_state, param_vars, calibration_vars,
                   auto_config_done, thread_vars, auto_config_runs,
                   calib_polls, frozen>>

\* GunCon2Device::SetBindingValue; the relative axes go to relative_pos,
\* which reaches the device only through the pointer sample
SetBindingValue(bind_index, pressed) ==
    /\ button_state' =
          IF bind_index < BID_RELATIVE_LEFT
          THEN IF pressed THEN SetBit(button_state, bind_index)
                          ELSE ClearBit(button_state, bind_index)
          ELSE button_state
    /\ p' = NoPacket
    /\ pointer' = NoPointer
    /\ UNCHANGED <<env_vars, teardown_vars, snapshot, calib_started, udev_vars, si, custom_config, profile_vars, param_vars,
                   calibration_vars, auto_config_done, thread_vars,
                   auto_config_runs, calib_polls, frozen>>

\* mutant: the calibration timer is written as 0
SavedStateWithoutTimer ==
    [marker |-> "GunCon2Device",
     param_x |-> param_x, param_y |-> param_y, param_mode |-> param_mode,
     calibration_timer |-> 0,
     calibration_pos_x |-> calibration_pos_x,
     calibration_pos_y |-> calibration_pos_y,
     auto_config_done |-> auto_config_done,
     scale_x |-> scale_x, scale_y |-> scale_y,
     center_x |-> center_x, center_y |-> center_y,
     screen_width |-> screen_width, screen_height |-> screen_height]

\* what Freeze writes, in order (lines 1172-1194)
SavedState ==
    [marker |-> "GunCon2Device",
     param_x |-> param_x, param_y |-> param_y, param_mode |-> param_mode,
     calibration_timer |-> calibration_timer,
     calibration_pos_x |-> calibration_pos_x,
     calibration_pos_y |-> calibration_pos_y,
     auto_config_done |-> auto_config_done,
     scale_x |-> scale_x, scale_y |-> scale_y,
     center_x |-> center_x, center_y |-> center_y,
     screen_width |-> screen_width, screen_height |-> screen_height]

\* a stream that belongs to another device, with other contents than the
\* live state
ForeignState == [MidCalibrationState EXCEPT !.marker = "other"]

\* mutant: the marker is not compared
DoMarkerUnchecked(stream) == TRUE

\* sw.DoMarker("GunCon2Device")
DoMarker(stream) == stream.marker = "GunCon2Device"

\* mutant: the saved geometry is restored under manual geometry too
RestoresProfileAlways(custom, done) == done

\* mutant: the restored auto_config_done is not consulted
RestoresProfileUnlessCustom(custom, done) == ~custom

\* line 1197: the saved geometry replaces the live one
RestoresProfile(custom, done) == ~custom /\ done

FreezePacket(status) == [NoPacket EXCEPT !.op = "freeze", !.status = status]

\* GunCon2Device::Freeze on the save state `stream`: writing produces it,
\* reading loads it
Freeze(reading, stream) ==
    IF ~reading
    THEN /\ stream = SavedState
         /\ p' = [FreezePacket("ok") EXCEPT !.op = "save"]
         /\ pointer' = NoPointer
         /\ UNCHANGED <<env_vars, teardown_vars, calib_started, udev_vars, si, custom_config, profile_vars, button_state,
                        param_vars, calibration_vars, auto_config_done,
                        thread_vars, auto_config_runs, calib_polls, frozen>>
    ELSE IF ~DoMarker(stream)
    THEN /\ p' = FreezePacket("fail")
         /\ pointer' = NoPointer
         /\ UNCHANGED <<env_vars, teardown_vars, calib_started, udev_vars, si, custom_config, profile_vars, button_state,
                        param_vars, calibration_vars, auto_config_done,
                        thread_vars, auto_config_runs, calib_polls, frozen>>
    ELSE /\ param_x' = stream.param_x
         /\ param_y' = stream.param_y
         /\ param_mode' = stream.param_mode
         /\ calibration_timer' = stream.calibration_timer
         /\ calibration_pos_x' = stream.calibration_pos_x
         /\ calibration_pos_y' = stream.calibration_pos_y
         /\ auto_config_done' = stream.auto_config_done
         /\ IF RestoresProfile(custom_config, stream.auto_config_done)
            THEN SetProfile(stream)
            ELSE UNCHANGED profile_vars
         /\ p' = FreezePacket("ok")
         /\ pointer' = NoPointer
         /\ calib_polls' = 0
         /\ frozen' = NoPos
         /\ UNCHANGED <<env_vars, teardown_vars, calib_started, udev_vars, si, custom_config, button_state, thread_vars,
                        auto_config_runs>>

(***************************************************************************)
(* Background threads                                                      *)
(***************************************************************************)
\* GunCon2State::threadAutoConfigure, once its 50 waits are over: it names
\* the running title and starts threadOutputs, then returns
threadAutoConfigure ==
    /\ pcAutoConfigure = "loop"
    /\ ~threadOutputLoaded
    /\ ~quitThread
    /\ disc_serial # "" /\ active_game = ""
    /\ active_game' = disc_serial
    /\ pcOutputs' = "start"
    /\ pcAutoConfigure' = "done"
    /\ UNCHANGED <<env_vars, teardown_vars, snapshot, calib_started, udev_vars, si, custom_config, profile_vars, button_state,
                   param_vars, calibration_vars, auto_config_done,
                   splitscreen_activated, threadOutputLoaded, p, hist_vars>>

\* GunCon2State::threadOutputs: its first statement, then one turn of its
\* loop, where memRead8 tells whether the title is in split-screen mode
threadOutputs ==
    \/ /\ pcOutputs = "start"
       /\ threadOutputLoaded' = TRUE
       /\ pcOutputs' = "loop"
       /\ UNCHANGED <<env_vars, teardown_vars, snapshot, calib_started, udev_vars, si, custom_config, profile_vars, button_state,
                      param_vars, calibration_vars, auto_config_done, active_game,
                      splitscreen_activated, pcAutoConfigure, p, hist_vars>>
    \/ /\ pcOutputs = "loop"
       /\ active_game # "" /\ ~quitThread
       /\ \E mem \in BOOLEAN :
             splitscreen_activated' = IF active_game \in SplitTitles
                                      THEN mem ELSE splitscreen_activated
       /\ UNCHANGED <<env_vars, teardown_vars, snapshot, calib_started, udev_vars, si, custom_config, profile_vars, button_state,
                      param_vars, calibration_vars, auto_config_done, active_game,
                      threadOutputLoaded, pcAutoConfigure, pcOutputs, p,
                      hist_vars>>

\* lines 558-559: threadAutoConfigure returns when it finds quitThread set
threadAutoConfigureQuit ==
    /\ pcAutoConfigure = "loop"
    /\ ~threadOutputLoaded
    /\ quitThread
    /\ pcAutoConfigure' = "done"
    /\ UNCHANGED <<env_vars, teardown_vars, snapshot, calib_started, udev_vars,
                   si, custom_config, profile_vars, button_state, param_vars,
                   calibration_vars, auto_config_done, active_game,
                   splitscreen_activated, threadOutputLoaded, pcOutputs, p,
                   hist_vars>>

\* line 493: threadOutputs leaves its loop and returns
threadOutputsStop ==
    /\ pcOutputs = "loop"
    /\ active_game = "" \/ quitThread
    /\ pcOutputs' = "done"
    /\ UNCHANGED <<env_vars, teardown_vars, snapshot, calib_started, udev_vars,
                   si, custom_config, profile_vars, button_state, param_vars,
                   calibration_vars, auto_config_done, active_game,
                   splitscreen_activated, threadOutputLoaded, pcAutoConfigure, p,
                   hist_vars>>

\* myThread != nullptr: threadAutoConfigure has created threadOutputs
myThread == pcOutputs # "none"

\* GunCon2State::~GunCon2State, statement by statement: close, the test of
\* myThread and its join, then quitThread and the join of
\* myThreadAutoConfigure, which the constructor always creates
GunCon2State_dtor ==
    \/ /\ pcDtor = "alive"
       /\ udev_closed' = udev_has(udev_fd)
       /\ pcDtor' = "test_myThread"
       /\ UNCHANGED <<quitThread, active_game, dtor_kept>>
    \/ /\ pcDtor = "test_myThread"
       /\ IF myThread
          THEN /\ active_game' = ""
               /\ quitThread' = TRUE
               /\ pcDtor' = "join_myThread"
          ELSE /\ pcDtor' = "quit"
               /\ UNCHANGED <<quitThread, active_game>>
       /\ UNCHANGED <<udev_closed, dtor_kept>>
    \/ /\ pcDtor = "join_myThread"
       /\ pcOutputs = "done"
       /\ pcDtor' = "quit"
       /\ UNCHANGED <<quitThread, active_game, udev_closed, dtor_kept>>
    \/ /\ pcDtor = "quit"
       /\ quitThread' = TRUE
       /\ pcDtor' = "join_myThreadAutoConfigure"
       /\ UNCHANGED <<active_game, udev_closed, dtor_kept>>
    \/ /\ pcDtor = "join_myThreadAutoConfigure"
       /\ pcAutoConfigure = "done"
       /\ pcDtor' = "returned"
       /\ UNCHANGED <<quitThread, active_game, udev_closed, dtor_kept>>

(***************************************************************************)
(* Specifications                                                          *)
(***************************************************************************)
\* GunCon2Device::CreateDevice on one of `ports`, with one of `serials` in
\* the drive: the constructor's defaults, then UpdateSettings with the
\* port's settings
InitWith(ports, serials, settings, fds) ==
    /\ port \in ports
    /\ disc_serial \in serials
    /\ si \in settings
    /\ custom_config = si.custom_config
    /\ scale_x = SettingsProfile(si).scale_x
    /\ scale_y = SettingsProfile(si).scale_y
    /\ center_x = SettingsProfile(si).center_x
    /\ center_y = SettingsProfile(si).center_y
    /\ screen_width = SettingsProfile(si).screen_width
    /\ screen_height = SettingsProfile(si).screen_height
    /\ button_state = 0
    /\ param_x = 0
    /\ param_y = 0
    /\ param_mode = 0
    /\ calibration_timer = 0
    /\ calibration_pos_x = 0
    /\ calibration_pos_y = 0
    /\ auto_config_done = FALSE
    /\ active_game = ""
    /\ splitscreen_activated = FALSE
    /\ threadOutputLoaded = FALSE
    /\ pcAutoConfigure = "loop"
    /\ pcOutputs = "none"
    /\ p = NoPacket
    /\ pointer = NoPointer
    /\ auto_config_runs = 0
    /\ calib_polls = 0
    /\ frozen = NoPos
    /\ udev_fd \in fds
    /\ udev_events = <<>>
    /\ calibrated = FALSE
    /\ udev_internalGunX = 0
    /\ udev_internalGunY = 0
    /\ quitThread = FALSE
    /\ pcDtor = "alive"
    /\ udev_closed = FALSE
    /\ snapshot = NoSnapshot
    /\ calib_started = FALSE

\* the same when udev_open_gun finds no device to open
InitOver(ports, serials, settings) == InitWith(ports, serials, settings, {-1})

Control(payloads) ==
    \E request \in Requests, data \in payloads : guncon2_handle_control(request, data)

\* line 397 is taken by the poll made in this state
StartsCalibration == CalibrationStarts(Polled.button_state, calibration_timer)

Poll(pointers) ==
    /\ \E ptr \in pointers : guncon2_handle_data("IN", 1, ptr)
    /\ calib_started' = (calib_started \/ StartsCalibration)

BadTransfer ==
    /\ \E pid \in {"IN", "OUT"}, ep \in {1, 2} :
          /\ ~(pid = "IN" /\ ep = 1)
          /\ guncon2_handle_data(pid, ep, NoPointer)
    /\ UNCHANGED calib_started

Settings(settings) == \E s \in settings : UpdateSettings(s)

Binding(binds) == \E b \in binds, pressed \in BOOLEAN : SetBindingValue(b, pressed)

\* a save state is written and thrown away
Save == Freeze(FALSE, SavedState) /\ UNCHANGED snapshot

\* a save state is written and kept by the host
SaveKept == Freeze(FALSE, SavedState) /\ snapshot' = SavedState

Load(streams) ==
    /\ \E stream \in streams \cup {SavedState, ForeignState} : Freeze(TRUE, stream)
    /\ UNCHANGED snapshot

\* the save state the host kept is loaded
LoadKept == Freeze(TRUE, snapshot) /\ UNCHANGED snapshot

\* The calibration machine: every button that reaches the report, three
\* pointer positions, a title without a table row
PointerSamples ==
    { <<Offscreen, Offscreen>>, <<Unit \div 2, Unit \div 2>>, <<Unit \div 4, Unit>> }

Binds == {BID_TRIGGER, BID_SHOOT_OFFSCREEN, BID_RECALIBRATE, BID_RELATIVE_LEFT}

Init == InitOver({0}, {"SLPM-00000"}, {DefaultSettings})

Next ==
    \/ Control({PayloadProgressive})
    \/ Poll(PointerSamples)
    \/ BadTransfer
    \/ Settings({DefaultSettings})
    \/ Binding(Binds)
    \/ Save
    \/ Load({MidCalibrationState})
    \/ threadAutoConfigure
    \/ threadOutputs

Spec == Init /\ [][Next]_vars

(***************************************************************************)
(* Calibration claims, checked under Spec                                  *)
(***************************************************************************)
ValidPoll == Poll(PointerSamples)

IsReport == p.op = "data" /\ p.status = "ok"

ReportPos == <<p.pos_x, p.pos_y>>

RecalibrateDown == Bit(button_state, BID_RECALIBRATE) = 1

OffscreenDown == Bit(button_state, BID_SHOOT_OFFSCREEN) = 1

\* what the mapper gives for the pointer of the last poll
MappedNow == CalculatePosition(pointer[1], pointer[2], Profile, Params, Dev)

\* C1: counted from the poll that starts a calibration, polls 1 to 7 report
\* the position mapped on poll 1, polls 8 to 12 report (0,0), the timer is
\* 12 minus the count and so 0 after poll 12, and poll 13 is an idle poll:
\* the mapped position, or (0,0) for an offscreen shot.
C1_CalibrationTiming ==
    /\ calib_polls \in 1..12 => calibration_timer = 12 - calib_polls
    /\ (IsReport /\ calib_polls \in 1..7) => ReportPos = frozen
    /\ (IsReport /\ calib_polls \in 8..12) => ReportPos = <<0, 0>>
    /\ calib_polls = 13 =>
          /\ calibration_timer = 0
          /\ IsReport => ReportPos = IF OffscreenDown THEN <<0, 0>> ELSE MappedNow

\* a 13th poll that reports a mapped on-screen position again
C1_Witness ==
    /\ IsReport
    /\ calib_polls = 13
    /\ ~OffscreenDown
    /\ ReportPos = MappedNow
    /\ ReportPos # <<0, 0>>

\* C2: a valid poll that finds calibration_timer above 0 lowers it by
\* exactly one and leaves calibration_pos_x and calibration_pos_y alone,
\* whatever the recalibrate input and the pointer are.
C2_NoReentry ==
    [][ (calibration_timer > 0 /\ ValidPoll) =>
            /\ calibration_timer' = calibration_timer - 1
            /\ calibration_pos_x' = calibration_pos_x
            /\ calibration_pos_y' = calibration_pos_y ]_vars

\* the third poll of a sequence, with recalibrate still down and the
\* pointer somewhere else than on the first poll
C2_Witness ==
    /\ IsReport
    /\ calib_polls = 3
    /\ RecalibrateDown
    /\ MappedNow # frozen
    /\ frozen = <<calibration_pos_x, calibration_pos_y>>
    /\ frozen # <<0, 0>>

\* C3 as claimed: every report of a poll made while a calibration is
\* running (already running, or started by this poll) has bit 13 set.
C3_TriggerReleased ==
    [][ ((calibration_timer > 0 \/ RecalibrateDown) /\ ValidPoll) =>
            Bit(p'.buttons, BID_TRIGGER) = 1 ]_vars

\* C3 as amended: every such report has bit 13 clear, which in the
\* active-low button word is the trigger held down.
C3_TriggerDown ==
    [][ ((calibration_timer > 0 \/ RecalibrateDown) /\ ValidPoll) =>
            Bit(p'.buttons, BID_TRIGGER) = 0 ]_vars

\* a report of the (0,0) phase made with the trigger input up
C3_Witness ==
    /\ IsReport
    /\ calib_polls \in 8..12
    /\ Bit(button_state, BID_TRIGGER) = 0
    /\ Bit(p.buttons, BID_TRIGGER) = 0

\* C4: a valid poll with the offscreen input down, the timer at 0 and
\* recalibrate up reports (0,0) with bit 13 clear, as calibration does, and
\* leaves the calibration state alone.
C4_ShootOffscreen ==
    [][ (OffscreenDown /\ calibration_timer = 0 /\ ~RecalibrateDown /\ ValidPoll) =>
            /\ p'.pos_x = 0 /\ p'.pos_y = 0
            /\ Bit(p'.buttons, BID_TRIGGER) = 0
            /\ UNCHANGED calibration_vars ]_vars

\* an idle poll with the pointer on screen and the offscreen input down
C4_Witness ==
    /\ IsReport
    /\ calib_polls = 13
    /\ OffscreenDown /\ ~RecalibrateDown
    /\ Bit(button_state, BID_TRIGGER) = 0
    /\ MappedNow # <<0, 0>>
    /\ ReportPos = <<0, 0>>
    /\ Bit(p.buttons, BID_TRIGGER) = 0

(***************************************************************************)
(* The mapper alone: MapSpec polls an idle device, with its profile,       *)
(* parameters and split-screen fields drawn from the values they can take  *)
(***************************************************************************)
MapCoordinates == {Offscreen, 0, Unit \div 4, Unit \div 2, Unit}

MapPointers == MapCoordinates \X MapCoordinates

\* the default profile and four table rows
TableProfiles ==
    { AutoConfigure(serial, SettingsProfile(DefaultSettings), "").profile :
        serial \in {"SLPM-00000", "SLUS-20219", "SCES-50300", "SLES-50936", "SLES-51617"} }

\* manual geometry at both ends of the ranges of GunCon2Device::Settings
\* (lines 1146-1163): scale 0..200 %, center 0..1024, size 1..1024
ManualProfiles ==
    { SettingsProfile([DefaultSettings EXCEPT !.custom_config = TRUE,
            !.scale_x = 0, !.scale_y = 0, !.center_x = 0, !.center_y = 0,
            !.screen_width = 1, !.screen_height = 1]),
      SettingsProfile([DefaultSettings EXCEPT !.custom_config = TRUE,
            !.scale_x = 200 * PctUnit, !.scale_y = 200 * PctUnit,
            !.center_x = 1024, !.center_y = 1024,
            !.screen_width = 1024, !.screen_height = 1024]) }

\* SetParameter payloads with offsets 0, -3/3, 100/50 and the ends of s16,
\* interlaced and progressive
MapPayloads ==
    { <<0, 0, 0, 0, 0, 0>>, PayloadProgressive, PayloadInterlaced,
      <<0, 128, 0, 128, 0, 0>>, <<0, 128, 255, 127, 0, 1>>,
      <<255, 127, 255, 127, 0, 0>>, <<255, 127, 0, 128, 0, 1>>,
      <<192, 129, 64, 126, 0, 0>> }

\* port, active_game and splitscreen_activated as the two threads can leave
\* them: the flag is only ever set for a split-screen title
DevStates ==
    { d \in [port : {0, 1},
             active_game : {"", "SLPM-00000", "SLUS-20219", "SCES-50300"},
             splitscreen_activated : BOOLEAN] :
        d.splitscreen_activated => d.active_game \in SplitTitles }

MapInit ==
    /\ \E d \in DevStates :
          /\ port = d.port
          /\ active_game = d.active_game
          /\ splitscreen_activated = d.splitscreen_activated
    /\ disc_serial = active_game
    /\ threadOutputLoaded = (active_game # "")
    /\ pcAutoConfigure = IF active_game = "" THEN "loop" ELSE "done"
    /\ pcOutputs = IF active_game = "" THEN "none" ELSE "loop"
    /\ \E prof \in TableProfiles \cup ManualProfiles :
          /\ scale_x = prof.scale_x
          /\ scale_y = prof.scale_y
          /\ center_x = prof.center_x
          /\ center_y = prof.center_y
          /\ screen_width = prof.screen_width
          /\ screen_height = prof.screen_height
          /\ custom_config = (prof \in ManualProfiles)
    /\ si = DefaultSettings
    /\ auto_config_done = ~custom_config
    /\ auto_config_runs = IF auto_config_done THEN 1 ELSE 0
    /\ \E data \in MapPayloads :
          /\ param_x = DecodeParams(data).param_x
          /\ param_y = DecodeParams(data).param_y
          /\ param_mode = DecodeParams(data).param_mode
    /\ button_state = 0
    /\ calibration_timer = 0
    /\ calibration_pos_x = 0
    /\ calibration_pos_y = 0
    /\ p = NoPacket
    /\ pointer = NoPointer
    /\ calib_polls = 0
    /\ frozen = NoPos
    /\ udev_fd = -1
    /\ udev_events = <<>>
    /\ calibrated = FALSE
    /\ udev_internalGunX = 0
    /\ udev_internalGunY = 0
    /\ quitThread = FALSE
    /\ pcDtor = "alive"
    /\ udev_closed = FALSE
    /\ snapshot = NoSnapshot
    /\ calib_started = FALSE

MapNext == Poll(MapPointers)

MapSpec == MapInit /\ [][MapNext]_vars

OnScreen == pointer[1] >= 0 /\ pointer[2] >= 0

C6_AxesPositive ==
    (IsReport /\ OnScreen /\ Profile \in TableProfiles) =>
        (p.pos_x \in 1..32767 /\ p.pos_y \in 1..32767)

\* the split-screen aim adjustment is in force for the device fields d
AimAdjusted(d) == d.active_game \in SplitTitles /\ d.splitscreen_activated

\* C7 as claimed: the mapped position of a poll is the same for every
\* value of port, active_game and splitscreen_activated.
C7_Deterministic ==
    IsReport =>
        \A d \in DevStates :
            CalculatePosition(pointer[1], pointer[2], Profile, Params, d) = ReportPos

\* C7 as amended: it is the same for every port and active_game as long as
\* the split-screen aim adjustment is off on both sides.
C7_DeterministicUnsplit ==
    (IsReport /\ ~AimAdjusted(Dev)) =>
        \A d \in DevStates :
            ~AimAdjusted(d) =>
                CalculatePosition(pointer[1], pointer[2], Profile, Params, d) = ReportPos

\* an on-screen poll on port 1 of a split-screen title whose flag is clear
C7_Witness ==
    /\ IsReport
    /\ OnScreen
    /\ port = 1
    /\ active_game = "SLUS-20219"
    /\ ~splitscreen_activated
    /\ ReportPos # <<0, 0>>

\* the pointer the mapper scales: the sample after the aim adjustment
Sample == SplitPointer(pointer[1], pointer[2], Dev)

\* C22: for a sample with no negative coordinate, each reported axis is
\* round((p * size - size div 2) * scale + center) minus the offset,
\* raised to 1 when below and narrowed to 16 bits; the offset is the
\* parameter when mode bit 0x0100 is clear and the parameter halved toward
\* zero when it is set, so that a parameter of -3 adds 1.
C22_MapperFormula ==
    (IsReport /\ Sample[1] >= 0 /\ Sample[2] >= 0) =>
        LET offset(param) ==
                IF Bit(param_mode, 8) = 0 THEN param
                ELSE (param + (IF param < 0 THEN 1 ELSE 0)) \div 2
            x == ScaleAxis(Sample[1], screen_width, scale_x, center_x)
            y == ScaleAxis(Sample[2], screen_height, scale_y, center_y)
        IN  /\ p.pos_x = S16(IF x - offset(param_x) < 1 THEN 1 ELSE x - offset(param_x))
            /\ p.pos_y = S16(IF y - offset(param_y) < 1 THEN 1 ELSE y - offset(param_y))
            /\ (Bit(param_mode, 8) = 1 /\ param_x = -3 /\ x >= 0 /\ x < 32767) =>
                    p.pos_x = x + 1

\* the row of SLES-50936 (512x256, scale 112 % and 100 %, center 320/120)
\* with the offsets -3 and 3 in progressive mode: a quarter of the width
\* gives round(-128 * 1.12 + 320) + 1 = 178, half the height 120 - 1 = 119
C22_Witness ==
    /\ IsReport
    /\ pointer = <<Unit \div 4, Unit \div 2>>
    /\ ~splitscreen_activated
    /\ screen_width = 512 /\ screen_height = 256
    /\ scale_x = 11200 /\ scale_y = ScaleUnit
    /\ center_x = 320 /\ center_y = 120
    /\ param_x = -3 /\ param_y = 3
    /\ param_mode = GUNCON2_FLAG_PROGRESSIVE
    /\ ReportPos = <<178, 119>>

(***************************************************************************)
(* Profile selection: CfgSpec follows auto_config_done and custom_config   *)
(* through control requests, settings updates and save states, with a disc *)
(* that has a table row and one that has none                              *)
(***************************************************************************)
CfgPayloads == {PayloadInterlaced}

CfgInit ==
    InitOver({0}, {"SLUS-20219", "SLPM-00000"}, {DefaultSettings, ManualSettings})

CfgControl == Control(CfgPayloads)

CfgLoad == Load({FreshState, MidCalibrationState})

CfgSettings == Settings({DefaultSettings, ManualSettings, StaleSettings})

CfgNext ==
    \/ CfgControl
    \/ Poll({<<Unit \div 2, Unit \div 2>>})
    \/ BadTransfer
    \/ CfgSettings
    \/ Binding({BID_TRIGGER})
    \/ Save
    \/ CfgLoad
    \/ threadAutoConfigure
    \/ threadOutputs

CfgSpec == CfgInit /\ [][CfgNext]_vars

\* C8 as claimed: AutoConfigure has run at most once since the device was
\* created.
C8_AtMostOnce == auto_config_runs <= 1

\* C9: while custom_config is set the live profile is the one the last
\* settings update loaded, and no step taken with custom_config set runs
\* AutoConfigure.
C9_ManualAuthoritative ==
    /\ [](custom_config => Profile = SettingsProfile(si))
    /\ [][custom_config => auto_config_runs' = auto_config_runs]_vars

\* a save state holding the table row of SLUS-20219 was loaded into a device
\* with manual geometry, and the manual geometry is still live
C9_Witness ==
    /\ custom_config
    /\ p = FreezePacket("ok")
    /\ auto_config_done
    /\ calibration_timer = MidCalibrationState.calibration_timer
    /\ Profile = SettingsProfile(ManualSettings)
    /\ Profile # [k \in DOMAIN Profile |-> MidCalibrationState[k]]

\* C10: a control request that finds custom_config and auto_config_done
\* both false runs AutoConfigure once, leaves the profile AutoConfigure
\* selects, and returns with auto_config_done true, whatever the request.
C10_FirstControl ==
    [][ (~custom_config /\ ~auto_config_done /\ CfgControl) =>
            /\ auto_config_done'
            /\ auto_config_runs' = auto_config_runs + 1
            /\ Profile' = AutoConfigure(disc_serial, Profile, active_game).profile ]_vars

\* the first control request was one the device stalls, and the table row
\* of SLUS-20219 is live
C10_Witness ==
    /\ p = ControlPacket("stall")
    /\ ~custom_config
    /\ auto_config_done
    /\ auto_config_runs = 1
    /\ disc_serial = "SLUS-20219"
    /\ Profile = AutoConfigure("SLUS-20219", SettingsProfile(DefaultSettings), "").profile
    /\ Profile # SettingsProfile(DefaultSettings)
    /\ param_x = 0 /\ param_mode = 0

\* C24: a settings update that finds auto_config_done true and whose
\* settings have custom_config false leaves the six fields of the live
\* profile as they were, whatever geometry the settings hold, and leaves
\* custom_config false.
C24_SettingsKeepProfile ==
    [][ (auto_config_done /\ ~si'.custom_config /\ p'.op = "none" /\ CfgSettings) =>
            /\ UNCHANGED profile_vars
            /\ ~custom_config' ]_vars

\* settings with other geometry and custom_config false were given to a
\* device on which the row of SLUS-20219 is live, and the row is still live
C24_Witness ==
    /\ p = NoPacket
    /\ si = StaleSettings
    /\ ~custom_config
    /\ auto_config_done
    /\ Profile = AutoConfigure("SLUS-20219", SettingsProfile(DefaultSettings), "").profile
    /\ Profile # SettingsProfile(StaleSettings)

(***************************************************************************)
(* The table scan: SelSpec creates the device with every disc of the       *)
(* table, a disc without a row and no disc, and sends control requests     *)
(***************************************************************************)
TableSerials == {s_game_config[i].serial : i \in DOMAIN s_game_config}

SelInit ==
    InitOver({0, 1}, TableSerials \cup {"SLPM-00000", ""},
             {DefaultSettings, StaleSettings, ManualSettings})

SelNext ==
    \/ CfgControl
    \/ Settings({DefaultSettings, StaleSettings, ManualSettings})
    \/ threadAutoConfigure
    \/ threadOutputs

SelSpec == SelInit /\ [][SelNext]_vars

\* a control request that runs AutoConfigure
SelectionStep == ~custom_config /\ ~auto_config_done /\ CfgControl

\* C11: when AutoConfigure runs with a disc that has rows in the table, the
\* live profile becomes the first such row: scale_x and scale_y its
\* percentages over 100, center and screen size as recorded.
C11_TableProfile ==
    [][ (disc_serial \in TableSerials /\ SelectionStep) =>
            \E i \in DOMAIN s_game_config :
                /\ s_game_config[i].serial = disc_serial
                /\ \A j \in 1..(i - 1) : s_game_config[j].serial # disc_serial
                /\ scale_x' * 100 * PctUnit = s_game_config[i].scale_x * ScaleUnit
                /\ scale_y' * 100 * PctUnit = s_game_config[i].scale_y * ScaleUnit
                /\ center_x' = s_game_config[i].center_x
                /\ center_y' = s_game_config[i].center_y
                /\ screen_width' = s_game_config[i].screen_width
                /\ screen_height' = s_game_config[i].screen_height ]_vars

\* the last row of the table is live on a device created with other
\* geometry in its settings
C11_Witness ==
    /\ p.op = "control"
    /\ disc_serial = "SLES-51229"
    /\ si = StaleSettings
    /\ auto_config_done
    /\ auto_config_runs = 1
    /\ scale_x = 11015 /\ scale_y = ScaleUnit
    /\ center_x = 433 /\ center_y = 159
    /\ screen_width = 512 /\ screen_height = 256

\* C12 as claimed: when AutoConfigure runs with a disc that has no row, the
\* live profile is the default profile afterwards.
C12_AbsentDefault ==
    [][ (disc_serial \notin TableSerials /\ SelectionStep) =>
            Profile' = SettingsProfile(DefaultSettings) ]_vars

\* C12 as amended: when AutoConfigure runs with a disc that has no row, the
\* live profile is left as it was.
C12_AbsentKeeps ==
    [][ (disc_serial \notin TableSerials /\ SelectionStep) => Profile' = Profile ]_vars

\* a device created with other geometry in its settings and custom_config
\* false has kept that geometry through auto-selection
C12_Witness ==
    /\ p.op = "control"
    /\ disc_serial = "SLPM-00000"
    /\ si = StaleSettings
    /\ ~custom_config
    /\ auto_config_done
    /\ auto_config_runs = 1
    /\ Profile = SettingsProfile(StaleSettings)
    /\ Profile # SettingsProfile(DefaultSettings)

(***************************************************************************)
(* Requests and transfers: IoSpec sends every kind of control request with *)
(* eight payloads, polls, and makes transfers the device does not serve,   *)
(* on a device whose first control request selects a table row             *)
(***************************************************************************)
IoBinds == {BID_TRIGGER, BID_SHOOT_OFFSCREEN, BID_RECALIBRATE, BID_RELATIVE_LEFT}

IoInit == InitOver({0}, {"SLUS-20219"}, {DefaultSettings})

IoControl == Control(MapPayloads)

IoPoll == Poll({<<Unit \div 2, Unit \div 2>>})

IoNext ==
    \/ IoControl
    \/ IoPoll
    \/ BadTransfer
    \/ Binding(IoBinds)

IoSpec == IoInit /\ [][IoNext]_vars

\* a control request that is neither a descriptor request nor SetParameter
UnsupportedControl ==
    /\ p'.op = "control"
    /\ \E data \in MapPayloads : guncon2_handle_control("Other", data)

\* C13 as claimed: such a request stalls and changes neither the
\* parameters, the calibration state, auto_config_done nor the profile.
C13_StallChangesNothing ==
    [][ UnsupportedControl =>
            /\ p'.status = "stall"
            /\ UNCHANGED <<param_vars, calibration_vars, auto_config_done, profile_vars>> ]_vars

\* C13 as amended: such a request stalls and changes neither the
\* parameters, the calibration state nor the buttons; auto_config_done and
\* the profile are unchanged too unless the request is the one that runs
\* AutoConfigure, which then sets auto_config_done.
C13_StallKeepsParams ==
    [][ UnsupportedControl =>
            /\ p'.status = "stall"
            /\ UNCHANGED <<param_vars, calibration_vars, button_state>>
            /\ IF auto_config_done \/ custom_config
               THEN UNCHANGED <<auto_config_done, profile_vars, active_game>>
               ELSE auto_config_done' ]_vars

\* a stalled request in the middle of a calibration, with parameters set
C13_Witness ==
    /\ p.op = "control" /\ p.status = "stall"
    /\ auto_config_done
    /\ calibration_timer \in 1..11
    /\ param_x = 100 /\ param_y = 50

\* C14: SetParameter with the payload b0..b5 leaves param_x the signed
\* 16-bit value of b0 + 256 b1, param_y that of b2 + 256 b3 and param_mode
\* b4 + 256 b5, does not stall, and changes neither the buttons nor the
\* calibration state.
C14_SetParameter ==
    [][ \A data \in MapPayloads :
            (p'.op = "control" /\ guncon2_handle_control("SetParameter", data)) =>
                /\ param_x' \in -32768..32767
                /\ U16(param_x') = data[1] + 256 * data[2]
                /\ param_y' \in -32768..32767
                /\ U16(param_y') = data[3] + 256 * data[4]
                /\ param_mode' = data[5] + 256 * data[6]
                /\ p' = ControlPacket("ok")
                /\ UNCHANGED <<button_state, calibration_vars>> ]_vars

\* the payload 00 80 ff 7f 00 01 arrived in the middle of a calibration
C14_Witness ==
    /\ p = ControlPacket("ok")
    /\ param_x = -32768
    /\ param_y = 32767
    /\ param_mode = GUNCON2_FLAG_PROGRESSIVE
    /\ calibration_timer \in 1..11
    /\ RecalibrateDown

\* C23: a valid poll that finds the timer at 0 and both the recalibrate and
\* the shoot-offscreen input down starts a calibration (the timer is 11
\* after it), stores the position mapped on this poll and reports it; and
\* the report of a valid poll that finds the timer above 0 is the one the
\* same poll gives with the shoot-offscreen input up.
C23_CalibrationFirst ==
    [][ (p'.op = "data" /\ p'.status = "ok" /\ IoPoll) =>
            /\ (calibration_timer = 0 /\ RecalibrateDown /\ OffscreenDown) =>
                  /\ calibration_timer' = GUNCON2_CALIBRATION_DELAY - 1
                  /\ <<calibration_pos_x', calibration_pos_y'>> = MappedNow'
                  /\ <<p'.pos_x, p'.pos_y>> = MappedNow'
            /\ calibration_timer > 0 =>
                  /\ p'.buttons =
                        ClearBit(ButtonWord(ClearBit(button_state, BID_SHOOT_OFFSCREEN),
                                            param_mode), BID_TRIGGER)
                  /\ <<p'.pos_x, p'.pos_y>> =
                        IF calibration_timer - 1 < GUNCON2_CALIBRATION_REPORT_DELAY
                        THEN <<0, 0>>
                        ELSE <<calibration_pos_x, calibration_pos_y>> ]_vars

\* the first poll of a calibration started with the shoot-offscreen input
\* down reports the mapped position, which is not (0,0)
C23_Witness ==
    /\ IsReport
    /\ calib_polls = 1
    /\ RecalibrateDown /\ OffscreenDown
    /\ ReportPos = MappedNow
    /\ ReportPos = frozen
    /\ ReportPos # <<0, 0>>

(***************************************************************************)
(* Save states, checked under CfgSpec                                      *)
(***************************************************************************)
StreamProfile(stream) == [k \in DOMAIN Profile |-> stream[k]]

\* C17: a restore of a well-formed snapshot leaves the parameters, the
\* calibration timer and position and auto_config_done at the snapshot's
\* values; the snapshot's six profile fields become the live profile when
\* custom_config is false and the snapshot's auto_config_done is true, and
\* the live profile is unchanged otherwise.
C17_RestoreMerge ==
    [][ \A stream \in {FreshState, MidCalibrationState, SavedState} :
            (p'.op = "freeze" /\ Freeze(TRUE, stream)) =>
                /\ p' = FreezePacket("ok")
                /\ param_x' = stream.param_x
                /\ param_y' = stream.param_y
                /\ param_mode' = stream.param_mode
                /\ calibration_timer' = stream.calibration_timer
                /\ calibration_pos_x' = stream.calibration_pos_x
                /\ calibration_pos_y' = stream.calibration_pos_y
                /\ auto_config_done' = stream.auto_config_done
                /\ Profile' = IF ~custom_config /\ stream.auto_config_done
                              THEN StreamProfile(stream)
                              ELSE Profile ]_vars

\* a snapshot taken with the row of SLUS-20219 live was restored into a
\* device whose disc has no row
C17_Witness ==
    /\ p = FreezePacket("ok")
    /\ ~custom_config
    /\ disc_serial = "SLPM-00000"
    /\ auto_config_done
    /\ calibration_timer = MidCalibrationState.calibration_timer
    /\ param_x = MidCalibrationState.param_x
    /\ Profile = StreamProfile(MidCalibrationState)

\* C18: a restore of a stream whose marker is not the device's fails and
\* leaves the parameters, the calibration state, auto_config_done and the
\* profile as they were.
C18_BadMarker ==
    [][ (p'.op = "freeze" /\ Freeze(TRUE, ForeignState)) =>
            /\ p' = FreezePacket("fail")
            /\ UNCHANGED <<param_vars, calibration_vars, auto_config_done,
                           profile_vars, button_state, custom_config>> ]_vars

\* a failed restore of a stream whose contents differ from the live state
C18_Witness ==
    /\ p = FreezePacket("fail")
    /\ param_x # ForeignState.param_x
    /\ calibration_timer # ForeignState.calibration_timer
    /\ ~auto_config_done
    /\ Profile # StreamProfile(ForeignState)

\* C25: restoring the snapshot that a save in the same state writes leaves
\* the parameters, the calibration timer and position, auto_config_done and
\* the live profile as they were, with custom_config false and true, and
\* succeeds.
C25_RoundTrip ==
    [][ (p'.op = "freeze" /\ Freeze(TRUE, SavedState)) =>
            /\ p'.status = "ok"
            /\ UNCHANGED <<param_vars, calibration_vars, auto_config_done,
                           profile_vars, custom_config>> ]_vars

\* a device with manual geometry was restored in the middle of a
\* calibration, at a timer value only its own snapshot can hold
C25_Witness ==
    /\ p.op = "freeze" /\ p.status = "ok"
    /\ custom_config
    /\ auto_config_done
    /\ calibration_timer = 4
    /\ param_x = 100
    /\ Profile = SettingsProfile(ManualSettings)

(***************************************************************************)
(* The raw sampling source: UdevSpec attaches one, lets input_events       *)
(* queue up on it and makes data transfers                                 *)
(***************************************************************************)
UdevEvents ==
    { [type |-> "EV_KEY", code |-> "BTN_LEFT", value |-> 1],
      [type |-> "EV_KEY", code |-> "BTN_LEFT", value |-> 0],
      [type |-> "EV_KEY", code |-> "BTN_RIGHT", value |-> 1],
      [type |-> "EV_KEY", code |-> "BTN_MIDDLE", value |-> 1],
      [type |-> "EV_ABS", code |-> "ABS_X", value |-> 3] }

UdevInit == InitWith({0}, {"SLPM-00000"}, {DefaultSettings}, {3})

RawEvent == \E event \in UdevEvents : udev_event(event)

UdevPoll == Poll({NoPointer})

UdevNext ==
    \/ RawEvent
    \/ UdevPoll
    \/ BadTransfer

UdevSpec == UdevInit /\ [][UdevNext]_vars

\* positions in the pending queue of the events with this code
Pending(code) == {i \in DOMAIN udev_events : udev_events[i].code = code}

\* the last pending event with this code
LastPending(code) ==
    udev_events[CHOOSE i \in Pending(code) : \A j \in Pending(code) : j <= i]

\* the pending left-button events handled while `calibrated` is still false
Uncalibrated ==
    {i \in Pending("BTN_LEFT") :
        ~calibrated /\ \A j \in Pending("BTN_RIGHT") : i < j}

Pressed(event) == IF event.value # 0 THEN 1 ELSE 0

\* C19: a data transfer on a device with a raw source leaves nothing
\* pending, and its outcome is that of the pending events taken in order:
\* the last event of a button decides its bit, the last left-button event
\* that no right-button event precedes decides the recalibrate input, the
\* last event of an axis decides the pointer, and the calibration check and
\* the button word of a valid poll see the buttons so decided.
C19_DrainsPending ==
    [][ (p'.op = "data" /\ (UdevPoll \/ BadTransfer)) =>
            /\ udev_events' = <<>>
            /\ Pending("BTN_MIDDLE") # {} =>
                  Bit(button_state', BID_B) = Pressed(LastPending("BTN_MIDDLE"))
            /\ Pending("BTN_LEFT") # {} =>
                  /\ Bit(button_state', BID_TRIGGER) = Pressed(LastPending("BTN_LEFT"))
            /\ Bit(button_state', BID_RECALIBRATE) =
                  IF Uncalibrated = {}
                  THEN Bit(button_state, BID_RECALIBRATE)
                  ELSE Pressed(udev_events[CHOOSE i \in Uncalibrated :
                                               \A j \in Uncalibrated : j <= i])
            /\ Pending("BTN_RIGHT") # {} => (calibrated' /\ Bit(button_state', BID_A) = 1)
            /\ p'.status = "ok" =>
                  /\ \A b \in {BID_B, BID_A} :
                        Bit(p'.buttons, b) = 1 - Bit(button_state', b)
                  /\ Pending("ABS_X") # {} =>
                        4 * pointer'[1] = LastPending("ABS_X").value * Unit
                  /\ Pending("ABS_Y") # {} =>
                        4 * pointer'[2] = LastPending("ABS_Y").value * Unit
                  /\ (calibration_timer = 0 /\ Bit(button_state', BID_RECALIBRATE) = 1) =>
                        calibration_timer' = GUNCON2_CALIBRATION_DELAY - 1 ]_vars

\* the first poll of a calibration started by a left-button event, with a
\* right-button event after it and the gun moved
C19_Witness ==
    /\ IsReport
    /\ udev_fd # -1
    /\ udev_events = <<>>
    /\ calib_polls = 1
    /\ calibrated
    /\ RecalibrateDown
    /\ Bit(p.buttons, BID_A) = 0
    /\ 4 * pointer[1] = 3 * Unit
    /\ pointer[2] = 0

\* C27 as claimed: with the raw source as the only driver of the buttons,
\* the trigger bit of ButtonState is the value of the latest left-button
\* event handled; whenever it is clear (that event was a release), the
\* recalibrate bit is clear as well.
C27_ReleasedNotRecalibrating ==
    Bit(button_state, BID_TRIGGER) = 0 => Bit(button_state, BID_RECALIBRATE) = 0

(***************************************************************************)
(* Transfers the device does not serve, and the button word                *)
(***************************************************************************)
\* C15: a transfer that is not an IN on endpoint 1 stalls, produces no
\* report and leaves calibration_timer and the stored position unchanged,
\* whatever is pending on the raw source.
C15_BadTransferStalls ==
    [][ (p'.op = "data" /\ BadTransfer) =>
            /\ p' = StallPacket
            /\ UNCHANGED calibration_vars ]_vars

\* a stalled transfer in the middle of a calibration
C15_Witness ==
    /\ p = StallPacket
    /\ calibration_timer \in 1..11
    /\ RecalibrateDown
    /\ <<calibration_pos_x, calibration_pos_y>> # <<0, 0>>

\* bit b of the complement of ButtonState, with the progressive flag of the
\* mode in bit 8
WordBit(b) ==
    IF b = 8 /\ Bit(param_mode, 8) = 1 THEN 1 ELSE 1 - Bit(button_state', b)

\* C16: the button word of a valid poll has 16 bits; each of them except
\* bit 13 is the complement of that bit of ButtonState, bit 8 being set as
\* well when the mode has 0x0100; bit 13 is the complement too on a poll
\* outside calibration and without the shoot-offscreen input.
C16_ButtonWord ==
    [][ (p'.op = "data" /\ p'.status = "ok" /\ IoPoll) =>
            /\ p'.buttons \in 0..65535
            /\ \A b \in (0..15) \ {BID_TRIGGER} : Bit(p'.buttons, b) = WordBit(b)
            /\ (calibration_timer = 0
                    /\ Bit(button_state', BID_RECALIBRATE) = 0
                    /\ Bit(button_state', BID_SHOOT_OFFSCREEN) = 0) =>
                  Bit(p'.buttons, BID_TRIGGER) = WordBit(BID_TRIGGER) ]_vars

\* a progressive-mode report outside calibration with the trigger held
C16_Witness ==
    /\ IsReport
    /\ calibration_timer = 0
    /\ ~RecalibrateDown /\ ~OffscreenDown
    /\ Bit(button_state, BID_TRIGGER) = 1
    /\ Bit(button_state, BID_RELATIVE_LEFT) = 0
    /\ param_mode = GUNCON2_FLAG_PROGRESSIVE
    /\ p.buttons = 65535 - 8192

(***************************************************************************)
(* Background threads, checked under CfgSpec                               *)
(***************************************************************************)
\* C20 as claimed: a step of threadAutoConfigure or threadOutputs changes
\* neither active_game nor splitscreen_activated, the fields the mapper and
\* AutoConfigure work with.
C20_ThreadsWriteNoCoreField ==
    [][ (threadAutoConfigure \/ threadOutputs) =>
            UNCHANGED <<active_game, splitscreen_activated>> ]_vars

(***************************************************************************)
(* Teardown: DtorSpec runs the destructor next to the two threads, on a    *)
(* device with or without a raw source; the handlers run until it starts   *)
(***************************************************************************)
DtorInit ==
    InitWith({0}, {"SLUS-20219", "SLPM-00000", ""}, {DefaultSettings}, {-1, 3})

\* usb_hid_unrealize has not been called yet
Alive == pcDtor = "alive"

DtorNext ==
    \/ Alive /\ CfgControl
    \/ Alive /\ Poll({<<Unit \div 2, Unit \div 2>>})
    \/ threadAutoConfigure
    \/ threadAutoConfigureQuit
    \/ threadOutputs
    \/ threadOutputsStop
    \/ GunCon2State_dtor

DtorSpec == DtorInit /\ [][DtorNext]_vars

\* C21 as claimed: once the destructor has returned, an attached raw source
\* is closed, threadAutoConfigure has returned, and threadOutputs was never
\* started or has returned.
C21_NothingInFlight ==
    pcDtor = "returned" =>
        /\ udev_has(udev_fd) => udev_closed
        /\ pcAutoConfigure = "done"
        /\ pcOutputs \in {"none", "done"}

(***************************************************************************)
(* A device and its own save states: OwnSpec polls, sends control          *)
(* requests, changes inputs and settings, and lets the host keep a save    *)
(* state and load it back later                                            *)
(***************************************************************************)
OwnInit == InitOver({0}, {"SLUS-20219"}, {DefaultSettings})

OwnPoll == Poll({<<Unit \div 2, Unit \div 2>>})

OwnNext ==
    \/ Control({PayloadInterlaced})
    \/ OwnPoll
    \/ BadTransfer
    \/ Settings({DefaultSettings})
    \/ Binding({BID_RECALIBRATE})
    \/ SaveKept
    \/ LoadKept

OwnSpec == OwnInit /\ [][OwnNext]_vars

\* C26: between operations calibration_timer is in 0..11, and it is above
\* 0 only if some earlier valid poll found the recalibrate input down and
\* the timer at 0.
C26_TimerRange ==
    /\ calibration_timer \in 0..(GUNCON2_CALIBRATION_DELAY - 1)
    /\ calibration_timer > 0 => calib_started

\* the device's own snapshot, taken with the timer at 11, was loaded back
\* after the recalibrate input went up
C26_Witness ==
    /\ p.op = "freeze" /\ p.status = "ok"
    /\ ~RecalibrateDown
    /\ calibration_timer = GUNCON2_CALIBRATION_DELAY - 1
    /\ snapshot.calibration_timer = calibration_timer
    /\ calib_started

(***************************************************************************)
(* The start of split-screen detection: LiveSpec runs the two threads next *)
(* to control requests and polls on a device that is not torn down, with a *)
(* disc in the drive. Both threads are scheduled again and again (each     *)
(* sleeps and loops), hence the weak fairness.                             *)
(***************************************************************************)
LiveInit == InitOver({0, 1}, {"SLUS-20219", "SLPM-00000"}, {DefaultSettings})

LiveNext ==
    \/ CfgControl
    \/ Poll({<<Unit \div 2, Unit \div 2>>})
    \/ Binding({BID_TRIGGER})
    \/ threadAutoConfigure
    \/ threadOutputs

LiveSpec ==
    /\ LiveInit
    /\ [][LiveNext]_vars
    /\ WF_vars(threadAutoConfigure)
    /\ WF_vars(threadOutputs)

\* C28 as claimed: threadOutputs is eventually started.
C28_DetectionStarts == <>(pcOutputs # "none")

====
